---- MODULE Spec2Model ----
(***************************************************************************)
(* Task-dependency graph engine of scurve-be: the task store, the          *)
(* dependency store, the cycle guard of create_dependency and the          *)
(* critical-path computation of get_project_critical_path.                 *)
(***************************************************************************)
EXTENDS Integers, Sequences, FiniteSets, TLC

(* ---------------------------------------------------------------------- *)
(* Bounds of the model                                                     *)
(* ---------------------------------------------------------------------- *)
MaxDeps == 2
MaxFixtureTasks == 3
MaxFixtureDeps == 2
MaxTimelineTasks == 2
MaxNodeRows == 2
MaxBatch == 2
MaxLoopDeps == 2

(* ---------------------------------------------------------------------- *)
(* Values                                                                  *)
(* ---------------------------------------------------------------------- *)
\* SQL NULL / Option::None; timestamps count half days from 0
NULL == -1
\* utc_now()
Now == 0
\* timestamp units in one day: julianday() counts days
HalfDaysPerDay == 2

\* the ids Uuid::new_v4() hands to create_task
TaskIds == {1, 2, 3}
DepIds == 1..MaxDeps
ProjectIds == {"p1", "p2", "p3", "p4"}
Kinds == {"finish_to_start"}

\* rows of table projects: p1 and p2 belong to the caller, p3 to another
\* user, p4 has no row
projects == [p \in {"p1", "p2", "p3"} |->
               [user_id |-> IF p = "p3" THEN "u2" ELSE "u1", deleted_at |-> NULL]]
AuthUser == "u1"

\* error values: the message each AppError is built with
Ok == "ok"
ProjectNotFound == "project not found"
Forbidden == "not allowed to modify this project"
TaskNotFound == "task not found"
SelfDependency == "Cannot link task to itself"
ReverseExists == "Cycle detected: reverse dependency already exists"
CycleDetected == "Cycle detected: would create circular dependency"
DependencyNotFound == "Dependency not found or not in project"
GraphInvalid == "dependency graph is not a DAG"
BadDates == "end_date must be >= start_date"
DatabaseError == "database error"
BadProgress == "progress must be between 0 and 100"

\* calls: the requests that are between two of their statements, with the
\* position and the local values of each, one entry per request the server
\* runs at the same time
VARIABLES tasks, task_dependencies, resp, calls
vars == <<tasks, task_dependencies, resp, calls>>

(* ---------------------------------------------------------------------- *)
(* Store helpers                                                           *)
(* ---------------------------------------------------------------------- *)
\* AppError / success value handed back by a handler
Response(op, err, body) == [op |-> op, err |-> err, body |-> body]

\* ensure_project_membership: Ok, or the error it returns
ensure_project_membership(user_id, project_id) ==
  IF project_id \notin DOMAIN projects \/ projects[project_id].deleted_at # NULL
  THEN ProjectNotFound
  ELSE IF projects[project_id].user_id # user_id THEN Forbidden ELSE Ok

\* fetch_task without `AND t.deleted_at IS NULL`
fetch_task_any_project(user_id, project_id, task_id) ==
  /\ task_id \in DOMAIN tasks
  /\ project_id \in DOMAIN projects
  /\ projects[project_id].user_id = user_id
  /\ projects[project_id].deleted_at = NULL
  /\ tasks[task_id].deleted_at = NULL

\* the SELECT without its deleted_at clause
fetch_task_ignoring_deleted(user_id, project_id, task_id) ==
  /\ task_id \in DOMAIN tasks
  /\ tasks[task_id].project_id = project_id
  /\ project_id \in DOMAIN projects
  /\ projects[project_id].user_id = user_id
  /\ projects[project_id].deleted_at = NULL

\* fetch_task: TRUE iff the SELECT returns a row
fetch_task(user_id, project_id, task_id) ==
  /\ task_id \in DOMAIN tasks
  /\ tasks[task_id].project_id = project_id
  /\ project_id \in DOMAIN projects
  /\ projects[project_id].user_id = user_id
  /\ projects[project_id].deleted_at = NULL
  /\ tasks[task_id].deleted_at = NULL

\* the EXISTS query with its two binds in the order of the payload
reverse_exists_same_direction(source, target) ==
  \E d \in task_dependencies : d.source_task_id = source /\ d.target_task_id = target

\* SELECT EXISTS(... WHERE source_task_id = target AND target_task_id = source)
reverse_exists_of(rows, source, target) ==
  \E d \in rows : d.source_task_id = target /\ d.target_task_id = source

reverse_exists(source, target) == reverse_exists_of(task_dependencies, source, target)

\* the CTE without its recursive member: the direct successors only
reach_rec_one_round(r) == r

\* the recursive CTE reach(node): one round of the recursive member, iterated
\* until the UNION adds no new row
RECURSIVE reach_rec(_)
reach_rec(r) ==
  LET nxt == r \cup {d.target_task_id : d \in {e \in task_dependencies : e.source_task_id \in r}}
  IN IF nxt = r THEN r ELSE reach_rec(nxt)

reach(start) ==
  reach_rec({d.target_task_id : d \in {e \in task_dependencies : e.source_task_id = start}})

\* the reachability query joined with the live tasks: rows whose source
\* task is soft-deleted are not followed
RECURSIVE reach_rec_live_sources(_)
reach_rec_live_sources(r) ==
  LET live == {e \in task_dependencies :
                 /\ e.source_task_id \in DOMAIN tasks
                 /\ tasks[e.source_task_id].deleted_at = NULL}
      nxt == r \cup {d.target_task_id : d \in {e \in live : e.source_task_id \in r}}
  IN IF nxt = r THEN r ELSE reach_rec_live_sources(nxt)

cycle_exists_live_sources(source, target) ==
  source \in reach_rec_live_sources(
                {d.target_task_id : d \in {e \in task_dependencies :
                    /\ e.source_task_id = target
                    /\ e.source_task_id \in DOMAIN tasks
                    /\ tasks[e.source_task_id].deleted_at = NULL}})

\* SELECT EXISTS(SELECT 1 FROM reach WHERE node = source)
cycle_exists(source, target) == source \in reach(target)

\* the handler without the self-dependency test
is_self_dependency_never(source, target) == FALSE

\* if payload.source_task_id == payload.target_task_id
is_self_dependency(source, target) == source = target

\* CHECK (source_task_id != target_task_id) of table task_dependencies
check_constraint(source, target) == source # target

\* dt.date_naive().and_hms_opt(0, 0, 0): the midnight that starts the day of dt
normalize_to_midnight(dt) == dt - (dt % HalfDaysPerDay)

\* CAST(julianday(end_date) - julianday(start_date) AS INTEGER): the
\* difference in days, truncated toward zero
cast_julianday_diff(start_date, end_date) ==
  IF end_date >= start_date
  THEN (end_date - start_date) \div HalfDaysPerDay
  ELSE 0 - ((start_date - end_date) \div HalfDaysPerDay)

\* triggers trg_tasks_set_duration_insert / _update: the row as the trigger
\* leaves it
trg_tasks_set_duration(row) ==
  IF row.start_date # NULL /\ row.end_date # NULL
  THEN [row EXCEPT !.duration_days = cast_julianday_diff(row.start_date, row.end_date)]
  ELSE row

\* Option::map(normalize_to_midnight)
map_normalize(dt) == IF dt = NULL THEN NULL ELSE normalize_to_midnight(dt)

\* Uuid::new_v4(): an id no row carries; the lowest unused one stands for it
new_task_id == CHOOSE i \in TaskIds \ DOMAIN tasks :
                 \A j \in TaskIds \ DOMAIN tasks : i <= j
new_dep_id == CHOOSE i \in 1..(MaxDeps + 1) :
                /\ i \notin {d.id : d \in task_dependencies}
                /\ \A j \in 1..(i - 1) : j \in {d.id : d \in task_dependencies}

(* ---------------------------------------------------------------------- *)
(* Handlers of routes/tasks.rs                                             *)
(* ---------------------------------------------------------------------- *)
\* the error create_task returns before its INSERT, or Ok
create_task_result(project_id, start_date, end_date) ==
  IF ensure_project_membership(AuthUser, project_id) # Ok
  THEN ensure_project_membership(AuthUser, project_id)
  ELSE IF /\ start_date # NULL /\ end_date # NULL
          /\ map_normalize(end_date) < map_normalize(start_date)
       THEN BadDates
       ELSE Ok

create_task(project_id, start_date, end_date) ==
  LET err == create_task_result(project_id, start_date, end_date)
  IN /\ err = Ok => DOMAIN tasks # TaskIds
     /\ IF err = Ok
        THEN LET id == new_task_id
                 row == trg_tasks_set_duration(
                          [project_id |-> project_id,
                           start_date |-> map_normalize(start_date),
                           end_date |-> map_normalize(end_date),
                           duration_days |-> NULL, deleted_at |-> NULL])
             IN /\ tasks' = [i \in DOMAIN tasks \cup {id} |->
                               IF i = id THEN row ELSE tasks[i]]
                /\ resp' = Response("create_task", Ok, <<id>>)
        ELSE /\ tasks' = tasks
             /\ resp' = Response("create_task", err, <<>>)
     /\ UNCHANGED <<task_dependencies, calls>>

\* update_task without the test `ed < sd`
update_task_result_unvalidated(project_id, id, start_date, end_date) ==
  IF ~fetch_task(AuthUser, project_id, id) THEN TaskNotFound ELSE Ok

\* the error update_task returns before its UPDATE, or Ok; a NULL argument
\* is a field the payload leaves out
update_task_result(project_id, id, start_date, end_date) ==
  IF ~fetch_task(AuthUser, project_id, id) THEN TaskNotFound
  ELSE LET sd == IF start_date # NULL THEN normalize_to_midnight(start_date)
                 ELSE tasks[id].start_date
           ed == IF end_date # NULL THEN normalize_to_midnight(end_date)
                 ELSE tasks[id].end_date
       IN IF sd # NULL /\ ed # NULL /\ ed < sd THEN BadDates ELSE Ok

update_task(project_id, id, start_date, end_date) ==
  LET err == update_task_result(project_id, id, start_date, end_date)
  IN /\ IF err = Ok
        THEN LET sd == IF start_date # NULL THEN normalize_to_midnight(start_date)
                       ELSE tasks[id].start_date
                 ed == IF end_date # NULL THEN normalize_to_midnight(end_date)
                       ELSE tasks[id].end_date
                 row == trg_tasks_set_duration(
                          [tasks[id] EXCEPT !.start_date = sd, !.end_date = ed])
             IN /\ tasks' = [tasks EXCEPT ![id] = row]
                /\ resp' = Response("update_task", Ok, <<id>>)
        ELSE /\ tasks' = tasks
             /\ resp' = Response("update_task", err, <<>>)
     /\ UNCHANGED <<task_dependencies, calls>>

delete_task(project_id, id) ==
  /\ IF fetch_task(AuthUser, project_id, id)
     THEN /\ tasks' = [tasks EXCEPT ![id].deleted_at = Now]
          /\ resp' = Response("delete_task", Ok, <<>>)
     ELSE /\ tasks' = tasks
          /\ resp' = Response("delete_task", TaskNotFound, <<>>)
  /\ UNCHANGED <<task_dependencies, calls>>

\* the error create_dependency returns, or Ok when it reaches the end
create_dependency_result(project_id, source, target) ==
  IF ensure_project_membership(AuthUser, project_id) # Ok
  THEN ensure_project_membership(AuthUser, project_id)
  ELSE IF ~fetch_task(AuthUser, project_id, source) THEN TaskNotFound
  ELSE IF ~fetch_task(AuthUser, project_id, target) THEN TaskNotFound
  ELSE IF is_self_dependency(source, target) THEN SelfDependency
  ELSE IF reverse_exists(source, target) THEN ReverseExists
  ELSE IF cycle_exists(source, target) THEN CycleDetected
  ELSE IF ~check_constraint(source, target) THEN DatabaseError
  ELSE Ok

\* create_dependency with the two task binds of its INSERT exchanged
create_dependency_outcome_swapped(project_id, source, target, type_) ==
  LET err == create_dependency_result(project_id, source, target)
      dep == [id |-> new_dep_id, source_task_id |-> target,
              target_task_id |-> source, type_ |-> type_]
  IN IF err = Ok
     THEN [tasks |-> tasks, task_dependencies |-> task_dependencies \cup {dep},
           resp |-> Response("create_dependency", Ok, <<dep>>)]
     ELSE [tasks |-> tasks, task_dependencies |-> task_dependencies,
           resp |-> Response("create_dependency", err, <<>>)]

\* what create_dependency does in the current state: the stores it leaves
\* and the response it gives
create_dependency_outcome(project_id, source, target, type_) ==
  LET err == create_dependency_result(project_id, source, target)
      dep == [id |-> new_dep_id, source_task_id |-> source,
              target_task_id |-> target, type_ |-> type_]
  IN IF err = Ok
     THEN [tasks |-> tasks, task_dependencies |-> task_dependencies \cup {dep},
           resp |-> Response("create_dependency", Ok, <<dep>>)]
     ELSE [tasks |-> tasks, task_dependencies |-> task_dependencies,
           resp |-> Response("create_dependency", err, <<>>)]

\* the handler; an insert into a store of MaxDeps rows is outside the model
create_dependency(project_id, source, target, type_) ==
  LET out == create_dependency_outcome(project_id, source, target, type_)
  IN /\ out.resp.err = Ok => Cardinality(task_dependencies) < MaxDeps
     /\ tasks' = out.tasks
     /\ task_dependencies' = out.task_dependencies
     /\ resp' = out.resp
     /\ UNCHANGED calls

\* the DELETE without its id clause
delete_dependency_rows_any_id(rows, project_id, id) ==
  {d \in rows :
     /\ d.source_task_id \in DOMAIN tasks
     /\ tasks[d.source_task_id].project_id = project_id}

\* DELETE FROM task_dependencies WHERE id = ? AND source_task_id IN
\* (SELECT id FROM tasks WHERE project_id = ?), on a table holding rows
delete_dependency_rows_of(rows, project_id, id) ==
  {d \in rows :
     /\ d.id = id
     /\ d.source_task_id \in DOMAIN tasks
     /\ tasks[d.source_task_id].project_id = project_id}

delete_dependency_rows(project_id, id) ==
  delete_dependency_rows_of(task_dependencies, project_id, id)

\* the rows list_dependencies returns for a project of the caller, on a
\* table holding rows: the join with the live source task
list_dependencies_of(rows, project_id) ==
  {d \in rows :
     /\ d.source_task_id \in DOMAIN tasks
     /\ tasks[d.source_task_id].project_id = project_id
     /\ tasks[d.source_task_id].deleted_at = NULL}

delete_dependency(project_id, id) ==
  LET memb == ensure_project_membership(AuthUser, project_id)
      rows == delete_dependency_rows(project_id, id)
  IN /\ IF memb # Ok
        THEN /\ task_dependencies' = task_dependencies
             /\ resp' = Response("delete_dependency", memb, <<>>)
        ELSE /\ task_dependencies' = task_dependencies \ rows
             /\ resp' = Response("delete_dependency",
                                 IF rows = {} THEN DependencyNotFound ELSE Ok, <<>>)
     /\ UNCHANGED <<tasks, calls>>

(* ---------------------------------------------------------------------- *)
(* get_project_critical_path of routes/projects.rs                         *)
(* ---------------------------------------------------------------------- *)
\* all orders in which a HashMap/HashSet over S, or an unordered SELECT
\* returning the rows S, can be iterated
RECURSIVE Perms(_)
Perms(S) ==
  IF S = {} THEN {<<>>}
  ELSE UNION {{<<x>> \o pm : pm \in Perms(S \ {x})} : x \in S}

\* fetch_project: TRUE iff the SELECT returns a row
fetch_project(user_id, project_id) ==
  /\ project_id \in DOMAIN projects
  /\ projects[project_id].user_id = user_id
  /\ projects[project_id].deleted_at = NULL

\* the COALESCE with its first two arguments exchanged
duration_days_of_dates_first(t) ==
  IF t.start_date # NULL /\ t.end_date # NULL
  THEN cast_julianday_diff(t.start_date, t.end_date)
  ELSE IF t.duration_days # NULL THEN t.duration_days
  ELSE 0

\* COALESCE(t.duration_days, CAST(julianday(t.end_date) - julianday(t.start_date) AS INTEGER), 0)
duration_days_of(t) ==
  IF t.duration_days # NULL THEN t.duration_days
  ELSE IF t.start_date # NULL /\ t.end_date # NULL
       THEN cast_julianday_diff(t.start_date, t.end_date)
  ELSE 0

\* sql_tasks without `AND t.deleted_at IS NULL`
nodes_of_including_deleted(project_id) ==
  {t \in DOMAIN tasks : tasks[t].project_id = project_id}

\* the task rows of sql_tasks: live tasks of the project
nodes_of(project_id) ==
  {t \in DOMAIN tasks : tasks[t].project_id = project_id /\ tasks[t].deleted_at = NULL}

\* durations.insert(tu, dur as i32): the cast keeps every value of the i32
\* range, which holds all the durations of this model
durations_of(project_id) ==
  [t \in nodes_of(project_id) |-> duration_days_of(tasks[t])]

\* the rows of sql_deps: task_dependencies joined to the live source task of the project
dep_rows_of(project_id) ==
  {d \in task_dependencies : d.source_task_id \in nodes_of(project_id)}

\* the loop pushing a target only once per source while counting every row
RECURSIVE build_graph_dedup_adj(_, _, _)
build_graph_dedup_adj(rows, nodes, g) ==
  IF rows = <<>> THEN g
  ELSE LET d == Head(rows)
       IN IF d.source_task_id \notin nodes \/ d.target_task_id \notin nodes
          THEN build_graph_dedup_adj(Tail(rows), nodes, g)
          ELSE build_graph_dedup_adj(Tail(rows), nodes,
                 [adj |-> [g.adj EXCEPT ![d.source_task_id] =
                             IF \E i \in DOMAIN @ : @[i] = d.target_task_id
                             THEN @ ELSE Append(@, d.target_task_id)],
                  indeg |-> [g.indeg EXCEPT ![d.target_task_id] = @ + 1]])

\* the loop skipping only the rows whose source is outside nodes: a target
\* outside nodes gets an entry of its own in indeg
RECURSIVE build_graph_source_only(_, _, _)
build_graph_source_only(rows, nodes, g) ==
  IF rows = <<>> THEN g
  ELSE LET d == Head(rows)
           keys == DOMAIN g.adj \cup {d.target_task_id}
           adj == [x \in keys |-> IF x \in DOMAIN g.adj THEN g.adj[x] ELSE <<>>]
           indeg == [x \in keys |-> IF x \in DOMAIN g.indeg THEN g.indeg[x] ELSE 0]
       IN IF d.source_task_id \notin nodes
          THEN build_graph_source_only(Tail(rows), nodes, g)
          ELSE build_graph_source_only(Tail(rows), nodes,
                 [adj |-> [adj EXCEPT ![d.source_task_id] = Append(@, d.target_task_id)],
                  indeg |-> [indeg EXCEPT ![d.target_task_id] = @ + 1]])

\* the loop over dep_rows: rows with an endpoint outside nodes are skipped;
\* each other row is appended to adj[src] and counted in indeg[tgt]
RECURSIVE build_graph(_, _, _)
build_graph(rows, nodes, g) ==
  IF rows = <<>> THEN g
  ELSE LET d == Head(rows)
       IN IF d.source_task_id \notin nodes \/ d.target_task_id \notin nodes
          THEN build_graph(Tail(rows), nodes, g)
          ELSE build_graph(Tail(rows), nodes,
                 [adj |-> [g.adj EXCEPT ![d.source_task_id] = Append(@, d.target_task_id)],
                  indeg |-> [g.indeg EXCEPT ![d.target_task_id] = @ + 1]])

\* the inner loop testing `*e == 0` before the decrement
RECURSIVE kahn_neis_test_before_decrement(_, _, _)
kahn_neis_test_before_decrement(neis, indeg, q) ==
  IF neis = <<>> THEN [indeg |-> indeg, q |-> q]
  ELSE LET m == Head(neis)
           e == indeg[m] - 1
       IN kahn_neis_test_before_decrement(Tail(neis), [indeg EXCEPT ![m] = e],
                                          IF indeg[m] = 0 THEN Append(q, m) ELSE q)

\* the inner loop of Kahn's algorithm over the neighbours of the popped node
RECURSIVE kahn_neis(_, _, _)
kahn_neis(neis, indeg, q) ==
  IF neis = <<>> THEN [indeg |-> indeg, q |-> q]
  ELSE LET m == Head(neis)
           e == indeg[m] - 1
       IN kahn_neis(Tail(neis), [indeg EXCEPT ![m] = e],
                    IF e = 0 THEN Append(q, m) ELSE q)

\* while let Some(n) = q.pop_front()
RECURSIVE kahn(_, _, _, _)
kahn(q, topo, indeg, adj) ==
  IF q = <<>> THEN topo
  ELSE LET n == Head(q)
           st == kahn_neis(adj[n], indeg, Tail(q))
       IN kahn(st.q, Append(topo, n), st.indeg, adj)

\* HashMap::get(..).unwrap_or(&0) and HashMap::insert on best and prev
get_or_0(map, k) == IF k \in DOMAIN map THEN map[k] ELSE 0
insert(map, k, v) == [x \in DOMAIN map \cup {k} |-> IF x = k THEN v ELSE map[x]]

\* the relaxation without prev.insert(v, Some(u))
RECURSIVE relax_neis_without_prev(_, _, _, _, _)
relax_neis_without_prev(neis, u, dp, durations, bu) ==
  IF neis = <<>> THEN dp
  ELSE LET v == Head(neis)
           cand == bu + get_or_0(durations, v)
       IN IF cand > get_or_0(dp.best, v)
          THEN relax_neis_without_prev(Tail(neis), u,
                          [best |-> insert(dp.best, v, cand), prev |-> dp.prev],
                          durations, bu)
          ELSE relax_neis_without_prev(Tail(neis), u, dp, durations, bu)

\* the relaxation that also takes a candidate equal to best[v]
RECURSIVE relax_neis_non_strict(_, _, _, _, _)
relax_neis_non_strict(neis, u, dp, durations, bu) ==
  IF neis = <<>> THEN dp
  ELSE LET v == Head(neis)
           cand == bu + get_or_0(durations, v)
       IN IF cand >= get_or_0(dp.best, v)
          THEN relax_neis_non_strict(Tail(neis), u,
                          [best |-> insert(dp.best, v, cand),
                           prev |-> insert(dp.prev, v, u)], durations, bu)
          ELSE relax_neis_non_strict(Tail(neis), u, dp, durations, bu)

\* the relaxation of the successors of u
RECURSIVE relax_neis(_, _, _, _, _)
relax_neis(neis, u, dp, durations, bu) ==
  IF neis = <<>> THEN dp
  ELSE LET v == Head(neis)
           cand == bu + get_or_0(durations, v)
       IN IF cand > get_or_0(dp.best, v)
          THEN relax_neis(Tail(neis), u,
                          [best |-> insert(dp.best, v, cand),
                           prev |-> insert(dp.prev, v, u)], durations, bu)
          ELSE relax_neis(Tail(neis), u, dp, durations, bu)

\* for &u in topo.iter()
RECURSIVE relax(_, _, _, _)
relax(topo, dp, adj, durations) ==
  IF topo = <<>> THEN dp
  ELSE LET u == Head(topo)
       IN relax(Tail(topo), relax_neis(adj[u], u, dp, durations, get_or_0(dp.best, u)),
                adj, durations)

\* the maximum search that never updates max_val
RECURSIVE find_max_stale(_, _, _, _)
find_max_stale(order, best, max_node, max_val) ==
  IF order = <<>> THEN max_node
  ELSE LET n == Head(order)
       IN IF best[n] > max_val
          THEN find_max_stale(Tail(order), best, n, max_val)
          ELSE find_max_stale(Tail(order), best, max_node, max_val)

\* for (&n, &val) in best.iter(): the node kept in max_node, NULL for None
RECURSIVE find_max(_, _, _, _)
find_max(order, best, max_node, max_val) ==
  IF order = <<>> THEN max_node
  ELSE LET n == Head(order)
       IN IF best[n] > max_val
          THEN find_max(Tail(order), best, n, best[n])
          ELSE find_max(Tail(order), best, max_node, max_val)

\* the predecessor walk without path.reverse()
RECURSIVE walk_unreversed(_, _, _)
walk_unreversed(cur, prev, path) ==
  IF cur \in DOMAIN prev /\ prev[cur] # NULL
  THEN walk_unreversed(prev[cur], prev, path \o <<cur>>)
  ELSE path \o <<cur>>

\* the predecessor walk; path is built back to front
RECURSIVE walk(_, _, _)
walk(cur, prev, path) ==
  IF cur \in DOMAIN prev /\ prev[cur] # NULL THEN walk(prev[cur], prev, <<cur>> \o path)
  ELSE <<cur>> \o path

\* adj and indeg as built from the rows of sql_deps returned in row_order
graph_of(nodes, row_order) ==
  build_graph(row_order, nodes,
              [adj |-> [n \in nodes |-> <<>>], indeg |-> [n \in nodes |-> 0]])

\* the queue after `for (&n, &d) in indeg.iter()`, indeg iterated in indeg_order
seed_of(g, indeg_order) == SelectSeq(indeg_order, LAMBDA n : g.indeg[n] = 0)

\* topo, from the seeded queue q
topo_of(g, q) == kahn(q, <<>>, g.indeg, g.adj)

\* best and prev after the relaxation pass
dp_of(durations, adj, topo) ==
  LET done == {topo[i] : i \in DOMAIN topo}
  IN relax(topo, [best |-> [n \in done |-> get_or_0(durations, n)],
                  prev |-> [n \in done |-> NULL]], adj, durations)

\* the maximum search started with max_val = 0
path_of_from_zero(dp, best_order) ==
  LET max_node == find_max(SelectSeq(best_order, LAMBDA n : n \in DOMAIN dp.best),
                           dp.best, NULL, 0)
  IN IF max_node = NULL THEN <<>> ELSE walk(max_node, dp.prev, <<>>)

\* the path returned when best is iterated in best_order
path_of(dp, best_order) ==
  LET max_node == find_max(SelectSeq(best_order, LAMBDA n : n \in DOMAIN dp.best),
                           dp.best, NULL, -1)
  IN IF max_node = NULL THEN <<>> ELSE walk(max_node, dp.prev, <<>>)

\* the handler without the test topo.len() != nodes.len()
critical_path_unchecked(nodes, durations, adj, topo, best_orders) ==
  LET dp == dp_of(durations, adj, topo)
  IN {Response("critical_path", Ok, path_of(dp, bo)) : bo \in best_orders}

\* the responses of the handler from the DAG check on, for one adj and topo,
\* over the iteration orders of best in best_orders
critical_path(nodes, durations, adj, topo, best_orders) ==
  IF Len(topo) # Cardinality(nodes)
  THEN {Response("critical_path", GraphInvalid, <<>>)}
  ELSE LET dp == dp_of(durations, adj, topo)
       IN {Response("critical_path", Ok, path_of(dp, bo)) : bo \in best_orders}

\* every response of the handler from the rows it has read: nodes and
\* durations from sql_tasks, dep_rows from sql_deps
critical_path_results_from(nodes, durations, dep_rows) ==
  LET orders == Perms(nodes)
      graphs == {graph_of(nodes, ro) : ro \in Perms(dep_rows)}
      runs == UNION {{[adj |-> g.adj, topo |-> topo_of(g, q)] :
                        q \in {seed_of(g, io) : io \in orders}} : g \in graphs}
  IN UNION {critical_path(nodes, durations, r.adj, r.topo, orders) : r \in runs}

\* every response the handler gives when sql_deps returns the rows dep_rows:
\* the rows come in any order, indeg and best are iterated in any order
critical_path_results_of(project_id, dep_rows) ==
  IF ~fetch_project(AuthUser, project_id)
  THEN {Response("critical_path", ProjectNotFound, <<>>)}
  ELSE critical_path_results_from(nodes_of(project_id), durations_of(project_id), dep_rows)

\* adj and topo of every run of the handler in the current state, over the
\* orders of the rows of sql_deps and of the iteration of indeg
runs_of(project_id) ==
  LET nodes == nodes_of(project_id)
      graphs == {graph_of(nodes, ro) : ro \in Perms(dep_rows_of(project_id))}
  IN UNION {{[adj |-> g.adj, topo |-> topo_of(g, q)] :
               q \in {seed_of(g, io) : io \in Perms(nodes)}} : g \in graphs}

\* every response the handler can give in the current state
critical_path_results(project_id) ==
  critical_path_results_of(project_id, dep_rows_of(project_id))

\* the handler clearing away the rows it skips
get_project_critical_path_purging(project_id) ==
  /\ resp' \in critical_path_results(project_id)
  /\ task_dependencies' =
       {d \in task_dependencies : /\ d.source_task_id \in nodes_of(project_id)
                                  /\ d.target_task_id \in nodes_of(project_id)}
  /\ UNCHANGED <<tasks, calls>>

get_project_critical_path(project_id) ==
  /\ resp' \in critical_path_results(project_id)
  /\ UNCHANGED <<tasks, task_dependencies, calls>>

(* ---------------------------------------------------------------------- *)
(* batch_update_tasks                                                      *)
(* ---------------------------------------------------------------------- *)
\* the error the loop body returns for the item update, or Ok; rows are the
\* task rows as the transaction sees them, a NULL field of the item is one
\* the payload leaves out
batch_item_result(rows, project_id, update) ==
  IF ~(/\ update.id \in DOMAIN rows
       /\ rows[update.id].project_id = project_id
       /\ rows[update.id].deleted_at = NULL)
  THEN TaskNotFound
  ELSE LET start == IF update.start_date # NULL
                    THEN normalize_to_midnight(update.start_date)
                    ELSE rows[update.id].start_date
           end == IF update.end_date # NULL
                  THEN normalize_to_midnight(update.end_date)
                  ELSE rows[update.id].end_date
       IN IF start # NULL /\ end # NULL /\ end < start THEN BadDates
          ELSE IF update.progress # NULL /\ (update.progress < 0 \/ update.progress > 100)
          THEN BadProgress
          ELSE Ok

\* the task rows after the UPDATE statement of the item
batch_item_update(rows, update) ==
  LET current == rows[update.id]
      start_date == IF update.start_date # NULL
                    THEN normalize_to_midnight(update.start_date)
                    ELSE current.start_date
      end_date == IF update.end_date # NULL
                  THEN normalize_to_midnight(update.end_date)
                  ELSE current.end_date
      progress == IF update.progress # NULL THEN update.progress ELSE current.progress
  IN [rows EXCEPT ![update.id] =
        trg_tasks_set_duration([current EXCEPT !.start_date = start_date,
                                               !.end_date = end_date,
                                               !.progress = progress])]

\* for update in payload.tasks: the first error or Ok, the rows inside the
\* transaction and updated_ids
RECURSIVE batch_loop(_, _, _, _)
batch_loop(updates, project_id, rows, updated_ids) ==
  IF updates = <<>> THEN [err |-> Ok, rows |-> rows, updated_ids |-> updated_ids]
  ELSE LET update == Head(updates)
           err == batch_item_result(rows, project_id, update)
       IN IF err # Ok
          THEN [err |-> err, rows |-> rows, updated_ids |-> updated_ids]
          ELSE batch_loop(Tail(updates), project_id, batch_item_update(rows, update),
                          Append(updated_ids, update.id))

\* the table when every UPDATE runs on the pool, outside a transaction
batch_store_autocommit(run) == run.rows

\* the table after the request: tx.commit() after the loop, rollback when
\* the transaction is dropped by an early return
batch_store(run) == IF run.err = Ok THEN run.rows ELSE tasks

\* the bodies of the final SELECT ... WHERE id IN (updated_ids) ORDER BY
\* start_date ASC: NULL first, equal start dates in any order
batch_bodies(rows, updated_ids) ==
  {sq \in Perms({updated_ids[i] : i \in DOMAIN updated_ids}) :
     \A i \in DOMAIN sq, j \in DOMAIN sq :
       i < j => rows[sq[i]].start_date <= rows[sq[j]].start_date}

\* what batch_update_tasks does in the current state: the task rows it
\* leaves and the responses it can give
batch_update_tasks_outcome(project_id, updates) ==
  LET memb == ensure_project_membership(AuthUser, project_id)
      run == batch_loop(updates, project_id, tasks, <<>>)
  IN IF memb # Ok
     THEN [tasks |-> tasks, resps |-> {Response("batch_update_tasks", memb, <<>>)}]
     ELSE IF run.err # Ok
     THEN [tasks |-> batch_store(run),
           resps |-> {Response("batch_update_tasks", run.err, <<>>)}]
     ELSE [tasks |-> batch_store(run),
           resps |-> {Response("batch_update_tasks", Ok, b) :
                        b \in batch_bodies(run.rows, run.updated_ids)}]

batch_update_tasks(project_id, updates) ==
  LET out == batch_update_tasks_outcome(project_id, updates)
  IN /\ tasks' = out.tasks
     /\ resp' \in out.resps
     /\ UNCHANGED <<task_dependencies, calls>>

(* ---------------------------------------------------------------------- *)
(* Specification: API requests executed one at a time                      *)
(* ---------------------------------------------------------------------- *)
DatePairs == {<<NULL, NULL>>, <<2, 0>>}

Init ==
  /\ tasks = <<>>
  /\ task_dependencies = {}
  /\ resp = Response("none", Ok, <<>>)
  /\ calls = <<>>

\* requests: every task and row id against the caller's projects; one
\* request of each kind against the foreign and the missing project
OwnProjects == {"p1", "p2"}
TaskArgs(p) == IF p \in OwnProjects THEN TaskIds ELSE {1}
DepArgs(p) == IF p \in OwnProjects THEN DepIds ELSE {1}

CreateTask == \E p \in ProjectIds, dp \in DatePairs : create_task(p, dp[1], dp[2])
UpdateTask ==
  \E p \in ProjectIds, dp \in DatePairs : \E id \in TaskArgs(p) :
    update_task(p, id, dp[1], dp[2])
DeleteTask == \E p \in ProjectIds : \E id \in TaskArgs(p) : delete_task(p, id)
CreateDependency ==
  \E p \in ProjectIds, k \in Kinds : \E s \in TaskArgs(p), t \in TaskArgs(p) :
    create_dependency(p, s, t, k)
DeleteDependency == \E p \in ProjectIds : \E id \in DepArgs(p) : delete_dependency(p, id)

GetCriticalPath == \E p \in ProjectIds : get_project_critical_path(p)

Next ==
  \/ CreateTask \/ UpdateTask \/ DeleteTask
  \/ CreateDependency \/ DeleteDependency \/ GetCriticalPath

Spec == Init /\ [][Next]_vars
(* ---------------------------------------------------------------------- *)
(* Specification: a store filled by direct INSERTs, as the fixtures of     *)
(* tests/critical_path.rs and tests/critical_path_edge_cases.rs do, then   *)
(* read by get_project_critical_path                                       *)
(* ---------------------------------------------------------------------- *)
\* INSERT INTO tasks (id, project_id, ..., duration_days, ...): every task of
\* FixtureTaskIds is inserted with a duration; either the last one or all of
\* them may belong to another project or be soft-deleted, and then carry
\* duration 0, a column the handler never reads for such a row
\* a task row sql_tasks returns for project p1
IsFixtureNode(t) == t.project_id = "p1" /\ t.deleted_at = NULL

FixtureTaskIds == 1..MaxFixtureTasks
FixtureDurations == {0, 1}
FixtureTasks ==
  {f \in [FixtureTaskIds -> [project_id : {"p1", "p2"}, start_date : {NULL}, end_date : {NULL},
                      duration_days : FixtureDurations, deleted_at : {NULL, Now}]] :
     /\ \/ \A t \in FixtureTaskIds : t # MaxFixtureTasks => IsFixtureNode(f[t])
        \/ \A t \in FixtureTaskIds : ~IsFixtureNode(f[t])
     /\ \A t \in FixtureTaskIds :
          /\ f[t].project_id = "p2" => f[t].deleted_at = NULL
          /\ ~IsFixtureNode(f[t]) => f[t].duration_days = 0}

\* INSERT INTO task_dependencies (id, source_task_id, target_task_id, created_at):
\* up to MaxFixtureDeps rows, parallel rows included, the guard of
\* create_dependency bypassed; only the CHECK constraint of the table holds
FixturePairs == {pr \in FixtureTaskIds \X FixtureTaskIds : check_constraint(pr[1], pr[2])}
PairRank(pr) == pr[1] * (MaxFixtureTasks + 1) + pr[2]
FixtureDeps ==
  {{[id |-> i, source_task_id |-> f[i][1], target_task_id |-> f[i][2],
     type_ |-> "finish_to_start"] : i \in DOMAIN f} :
     f \in {h \in UNION {[1..k -> FixturePairs] : k \in 0..MaxFixtureDeps} :
              \A i, j \in DOMAIN h : i < j => PairRank(h[i]) <= PairRank(h[j])}}

InitFixture ==
  /\ tasks \in FixtureTasks
  /\ task_dependencies \in FixtureDeps
  /\ resp = Response("none", Ok, <<>>)
  /\ calls = <<>>

FixtureCriticalPath == get_project_critical_path("p1")

NextFixture == FixtureCriticalPath

SpecFixture == InitFixture /\ [][NextFixture]_vars

(* ---------------------------------------------------------------------- *)
(* Specification: the timeline of the tasks of one project, set through    *)
(* create_task and update_task                                             *)
(* ---------------------------------------------------------------------- *)
\* the timestamps a payload carries: midnight and noon of one day, midnight
\* of the next
Timestamps == {0, 1, 2}
OptionalTimestamps == Timestamps \cup {NULL}
TimelineTaskIds == 1..MaxTimelineTasks

InitTimeline ==
  /\ tasks = <<>>
  /\ task_dependencies = {}
  /\ resp = Response("none", Ok, <<>>)
  /\ calls = <<>>

TimelineCreateTask ==
  \E sd \in OptionalTimestamps, ed \in OptionalTimestamps :
    /\ Cardinality(DOMAIN tasks) < MaxTimelineTasks
    /\ create_task("p1", sd, ed)
TimelineUpdateTask ==
  \E id \in TimelineTaskIds, sd \in OptionalTimestamps, ed \in OptionalTimestamps :
    update_task("p1", id, sd, ed)
TimelineDeleteTask == \E id \in TimelineTaskIds : delete_task("p1", id)
TimelineCriticalPath == get_project_critical_path("p1")

NextTimeline ==
  TimelineCreateTask \/ TimelineUpdateTask \/ TimelineDeleteTask \/ TimelineCriticalPath

SpecTimeline == InitTimeline /\ [][NextTimeline]_vars

(* ---------------------------------------------------------------------- *)
(* Specification: task rows written directly with any duration and dates,  *)
(* no dependency rows, then the critical-path query                        *)
(* ---------------------------------------------------------------------- *)
NodeRowIds == 1..MaxNodeRows
NodeRowDurations == {NULL, 0, 2}
NodeRowStarts == {NULL, 0}
NodeRowEnds == {NULL, 3, 4}
\* INSERT INTO tasks (..., start_date, end_date, duration_days, ..., deleted_at):
\* the last row may be soft-deleted
NodeRows ==
  {f \in [NodeRowIds -> [project_id : {"p1"}, start_date : NodeRowStarts,
                         end_date : NodeRowEnds, duration_days : NodeRowDurations,
                         deleted_at : {NULL, Now}]] :
     \A t \in NodeRowIds : t # MaxNodeRows => f[t].deleted_at = NULL}

InitNodes ==
  /\ tasks \in NodeRows
  /\ task_dependencies = {}
  /\ resp = Response("none", Ok, <<>>)
  /\ calls = <<>>

NodesCriticalPath == get_project_critical_path("p1")

NextNodes == NodesCriticalPath

SpecNodes == InitNodes /\ [][NextNodes]_vars
(* ---------------------------------------------------------------------- *)
(* Specification: create_dependency requests whose statements interleave,  *)
(* and delete_dependency requests, on the live tasks of one project        *)
(* ---------------------------------------------------------------------- *)
\* the requests the server runs at the same time
Workers == {1, 2}
idle == [pc |-> "idle", source |-> 0, target |-> 0, type_ |-> "none"]

\* create_dependency up to its first query of task_dependencies: project,
\* both tasks and the self test read tables no request of this
\* specification writes
create_dependency_validate(project_id, source, target) ==
  IF ensure_project_membership(AuthUser, project_id) # Ok
  THEN ensure_project_membership(AuthUser, project_id)
  ELSE IF ~fetch_task(AuthUser, project_id, source) THEN TaskNotFound
  ELSE IF ~fetch_task(AuthUser, project_id, target) THEN TaskNotFound
  ELSE IF is_self_dependency(source, target) THEN SelfDependency
  ELSE Ok

create_dependency_begin(w, project_id, source, target, type_) ==
  LET err == create_dependency_validate(project_id, source, target)
  IN /\ calls[w].pc = "idle"
     /\ IF err = Ok
        THEN /\ calls' = [calls EXCEPT ![w] = [pc |-> "reverse_exists", source |-> source,
                                               target |-> target, type_ |-> type_]]
             /\ UNCHANGED resp
        ELSE /\ resp' = Response("create_dependency", err, <<>>)
             /\ UNCHANGED calls
     /\ UNCHANGED <<tasks, task_dependencies>>

\* the SELECT EXISTS of the reverse row
create_dependency_reverse_exists(w) ==
  /\ calls[w].pc = "reverse_exists"
  /\ IF reverse_exists(calls[w].source, calls[w].target)
     THEN /\ resp' = Response("create_dependency", ReverseExists, <<>>)
          /\ calls' = [calls EXCEPT ![w] = idle]
     ELSE /\ calls' = [calls EXCEPT ![w].pc = "cycle_exists"]
          /\ UNCHANGED resp
  /\ UNCHANGED <<tasks, task_dependencies>>

\* the recursive query from the target back to the source
create_dependency_cycle_exists(w) ==
  /\ calls[w].pc = "cycle_exists"
  /\ IF cycle_exists(calls[w].source, calls[w].target)
     THEN /\ resp' = Response("create_dependency", CycleDetected, <<>>)
          /\ calls' = [calls EXCEPT ![w] = idle]
     ELSE /\ calls' = [calls EXCEPT ![w].pc = "insert"]
          /\ UNCHANGED resp
  /\ UNCHANGED <<tasks, task_dependencies>>

\* the row with the two task binds of the INSERT exchanged
insert_row_swapped(source, target, type_) ==
  [id |-> new_dep_id, source_task_id |-> target, target_task_id |-> source,
   type_ |-> type_]

\* the row the INSERT statement binds
insert_row(source, target, type_) ==
  [id |-> new_dep_id, source_task_id |-> source, target_task_id |-> target,
   type_ |-> type_]

\* the INSERT, refused by the CHECK constraint of the table; an insert into
\* a store of MaxDeps rows is outside the model
create_dependency_insert(w) ==
  LET dep == insert_row(calls[w].source, calls[w].target, calls[w].type_)
  IN /\ calls[w].pc = "insert"
     /\ IF check_constraint(dep.source_task_id, dep.target_task_id)
        THEN /\ Cardinality(task_dependencies) < MaxDeps
             /\ task_dependencies' = task_dependencies \cup {dep}
             /\ resp' = Response("create_dependency", Ok, <<dep>>)
        ELSE /\ resp' = Response("create_dependency", DatabaseError, <<>>)
             /\ UNCHANGED task_dependencies
     /\ calls' = [calls EXCEPT ![w] = idle]
     /\ UNCHANGED tasks

\* three live tasks of project p1, no dependency rows, no request running
InitRace ==
  /\ tasks = [t \in TaskIds |-> [project_id |-> "p1", start_date |-> NULL,
                                  end_date |-> NULL, duration_days |-> NULL,
                                  deleted_at |-> NULL]]
  /\ task_dependencies = {}
  /\ resp = Response("none", Ok, <<>>)
  /\ calls = [w \in Workers |-> idle]

RaceBegin ==
  \E w \in Workers, s \in TaskIds, t \in TaskIds, k \in Kinds :
    create_dependency_begin(w, "p1", s, t, k)
RaceReverseExists == \E w \in Workers : create_dependency_reverse_exists(w)
RaceCycleExists == \E w \in Workers : create_dependency_cycle_exists(w)
RaceInsert == \E w \in Workers : create_dependency_insert(w)
RaceDeleteDependency == \E id \in DepIds : delete_dependency("p1", id)

NextRace ==
  RaceBegin \/ RaceReverseExists \/ RaceCycleExists \/ RaceInsert \/ RaceDeleteDependency

SpecRace == InitRace /\ [][NextRace]_vars
(* ---------------------------------------------------------------------- *)
(* Specification: batch_update_tasks requests on task rows written          *)
(* directly, as tests/task_batch.rs does                                   *)
(* ---------------------------------------------------------------------- *)
\* the dates an item carries: none, noon and the next midnight, noon two
\* days later alone
BatchDates == {<<NULL, NULL>>, <<1, 2>>, <<5, NULL>>}
\* the progress an item carries: the largest valid value and the one above
BatchProgress == {100, 101}
\* an item carries dates or a progress or nothing
BatchItems ==
  {[id |-> i, start_date |-> dp[1], end_date |-> dp[2], progress |-> NULL] :
     i \in TaskIds, dp \in BatchDates}
  \cup {[id |-> i, start_date |-> NULL, end_date |-> NULL, progress |-> pg] :
          i \in TaskIds, pg \in BatchProgress}
Batches == UNION {[1..k -> BatchItems] : k \in 0..MaxBatch}

\* tasks 1 and 2 of project p1 without dates; task 3 soft-deleted, or a
\* task of project p2
BatchRows ==
  {[t \in TaskIds |->
      [project_id |-> IF t = 3 THEN p ELSE "p1", start_date |-> NULL,
       end_date |-> NULL, duration_days |-> NULL, progress |-> 0,
       deleted_at |-> IF t = 3 /\ p = "p1" THEN Now ELSE NULL]] : p \in {"p1", "p2"}}

InitBatch ==
  /\ tasks \in BatchRows
  /\ task_dependencies = {}
  /\ resp = Response("none", Ok, <<>>)
  /\ calls = <<>>

\* every batch against the project of the tasks, the empty one against a
\* project of another user
BatchUpdateTasks ==
  \/ \E b \in Batches : batch_update_tasks("p1", b)
  \/ batch_update_tasks("p3", <<>>)

NextBatch == BatchUpdateTasks

SpecBatch == InitBatch /\ [][NextBatch]_vars

(* ---------------------------------------------------------------------- *)
(* Specification: a critical-path query whose two SELECTs interleave with  *)
(* task and dependency requests run one at a time                          *)
(* ---------------------------------------------------------------------- *)
\* fetch_project and sql_tasks: the query keeps nodes and durations
critical_path_read_tasks(w, project_id) ==
  /\ calls[w].pc = "idle"
  /\ IF ~fetch_project(AuthUser, project_id)
     THEN /\ resp' = Response("critical_path", ProjectNotFound, <<>>)
          /\ UNCHANGED calls
     ELSE /\ calls' = [calls EXCEPT ![w] = [pc |-> "tasks_read",
                                            nodes |-> nodes_of(project_id),
                                            durations |-> durations_of(project_id)]]
          /\ UNCHANGED resp
  /\ UNCHANGED <<tasks, task_dependencies>>

\* sql_deps and the computation on the rows read
critical_path_read_deps(w, project_id) ==
  /\ calls[w].pc = "tasks_read"
  /\ resp' \in critical_path_results_from(calls[w].nodes, calls[w].durations,
                                          dep_rows_of(project_id))
  /\ calls' = [calls EXCEPT ![w] = idle]
  /\ UNCHANGED <<tasks, task_dependencies>>

InitSnapshot ==
  /\ tasks = <<>>
  /\ task_dependencies = {}
  /\ resp = Response("none", Ok, <<>>)
  /\ calls = [w \in {1} |-> idle]

\* tasks of one day
SnapshotCreateTask == create_task("p1", 0, 2)
SnapshotDeleteTask == \E id \in TaskIds : delete_task("p1", id)
SnapshotCreateDependency ==
  \E s \in TaskIds, t \in TaskIds, k \in Kinds : create_dependency("p1", s, t, k)
SnapshotDeleteDependency == \E id \in DepIds : delete_dependency("p1", id)
SnapshotReadTasks == critical_path_read_tasks(1, "p1")
SnapshotReadDeps == critical_path_read_deps(1, "p1")

NextSnapshot ==
  \/ SnapshotCreateTask \/ SnapshotDeleteTask
  \/ SnapshotCreateDependency \/ SnapshotDeleteDependency
  \/ SnapshotReadTasks \/ SnapshotReadDeps

SpecSnapshot == InitSnapshot /\ [][NextSnapshot]_vars

(* ---------------------------------------------------------------------- *)
(* Specification: one request on a store written directly, its loops run   *)
(* one iteration at a time: the recursive query of create_dependency and   *)
(* the three loops of get_project_critical_path                            *)
(* ---------------------------------------------------------------------- *)
\* the rows the recursive member adds for the queue row r with UNION ALL
reach_new_rows_union_all(seen, r) ==
  {d.target_task_id : d \in {e \in task_dependencies : e.source_task_id = r}}

\* the rows the recursive member adds for the queue row r: UNION drops the
\* rows reach already holds
reach_new_rows(seen, r) ==
  {d.target_task_id : d \in {e \in task_dependencies : e.source_task_id = r}} \ seen

\* the initial SELECT of the recursive query fills reach and its queue
create_dependency_reach_init(w) ==
  LET first == {d.target_task_id :
                  d \in {e \in task_dependencies : e.source_task_id = calls[w].target}}
  IN /\ calls[w].pc = "cycle_exists"
     /\ calls' = [calls EXCEPT ![w] = [pc |-> "reach", source |-> calls[w].source,
                                       target |-> calls[w].target, type_ |-> calls[w].type_,
                                       reach |-> first, queue |-> first]]
     /\ UNCHANGED <<tasks, task_dependencies, resp>>

\* one row leaves the queue and the recursive member runs on it
create_dependency_reach_step(w) ==
  /\ calls[w].pc = "reach"
  /\ \E r \in calls[w].queue :
       LET new == reach_new_rows(calls[w].reach, r)
       IN calls' = [calls EXCEPT ![w].reach = @ \cup new,
                                 ![w].queue = (@ \ {r}) \cup new]
  /\ UNCHANGED <<tasks, task_dependencies, resp>>

\* the queue is empty: SELECT EXISTS(SELECT 1 FROM reach WHERE node = source)
create_dependency_reach_exists(w) ==
  /\ calls[w].pc = "reach" /\ calls[w].queue = {}
  /\ IF calls[w].source \in calls[w].reach
     THEN /\ resp' = Response("create_dependency", CycleDetected, <<>>)
          /\ calls' = [calls EXCEPT ![w] = idle]
     ELSE /\ calls' = [calls EXCEPT ![w] = [pc |-> "insert", source |-> calls[w].source,
                                            target |-> calls[w].target,
                                            type_ |-> calls[w].type_]]
          /\ UNCHANGED resp
  /\ UNCHANGED <<tasks, task_dependencies>>

\* the reads, the graph and the seeded queue of get_project_critical_path
critical_path_build(w, project_id) ==
  /\ calls[w].pc = "idle"
  /\ IF ~fetch_project(AuthUser, project_id)
     THEN /\ resp' = Response("critical_path", ProjectNotFound, <<>>)
          /\ UNCHANGED calls
     ELSE /\ \E ro \in Perms(dep_rows_of(project_id)), io \in Perms(nodes_of(project_id)) :
               LET g == graph_of(nodes_of(project_id), ro)
               IN calls' = [calls EXCEPT ![w] =
                              [pc |-> "kahn", nodes |-> nodes_of(project_id),
                               durations |-> durations_of(project_id),
                               adj |-> g.adj, indeg |-> g.indeg,
                               q |-> seed_of(g, io), topo |-> <<>>]]
          /\ UNCHANGED resp
  /\ UNCHANGED <<tasks, task_dependencies>>

\* while let Some(n) = q.pop_front(): one iteration
critical_path_kahn_step(w) ==
  /\ calls[w].pc = "kahn" /\ calls[w].q # <<>>
  /\ LET n == Head(calls[w].q)
         st == kahn_neis(calls[w].adj[n], calls[w].indeg, Tail(calls[w].q))
     IN calls' = [calls EXCEPT ![w].q = st.q, ![w].indeg = st.indeg,
                               ![w].topo = Append(@, n)]
  /\ UNCHANGED <<tasks, task_dependencies, resp>>

\* the queue is empty: the DAG check, then best and prev are initialised
critical_path_kahn_exit(w) ==
  /\ calls[w].pc = "kahn" /\ calls[w].q = <<>>
  /\ IF Len(calls[w].topo) # Cardinality(calls[w].nodes)
     THEN /\ resp' = Response("critical_path", GraphInvalid, <<>>)
          /\ calls' = [calls EXCEPT ![w] = idle]
     ELSE /\ calls' = [calls EXCEPT ![w] =
                         [pc |-> "relax", nodes |-> calls[w].nodes,
                          durations |-> calls[w].durations, adj |-> calls[w].adj,
                          topo |-> calls[w].topo, i |-> 1,
                          dp |-> [best |-> [n \in calls[w].nodes |->
                                             get_or_0(calls[w].durations, n)],
                                  prev |-> [n \in calls[w].nodes |-> NULL]]]]
          /\ UNCHANGED resp
  /\ UNCHANGED <<tasks, task_dependencies>>

\* for &u in topo.iter(): one iteration
critical_path_relax_step(w) ==
  /\ calls[w].pc = "relax" /\ calls[w].i <= Len(calls[w].topo)
  /\ LET u == calls[w].topo[calls[w].i]
     IN calls' = [calls EXCEPT ![w].i = @ + 1,
                               ![w].dp = relax_neis(calls[w].adj[u], u, @, calls[w].durations,
                                                    get_or_0(@.best, u))]
  /\ UNCHANGED <<tasks, task_dependencies, resp>>

\* the maximum search over best, iterated in any order
critical_path_find_max(w) ==
  /\ calls[w].pc = "relax" /\ calls[w].i > Len(calls[w].topo)
  /\ \E bo \in Perms(calls[w].nodes) :
       LET max_node == find_max(bo, calls[w].dp.best, NULL, -1)
       IN IF max_node = NULL
          THEN /\ resp' = Response("critical_path", Ok, <<>>)
               /\ calls' = [calls EXCEPT ![w] = idle]
          ELSE /\ calls' = [calls EXCEPT ![w] =
                              [pc |-> "walk", prev |-> calls[w].dp.prev,
                               cur |-> max_node, path |-> <<>>]]
               /\ UNCHANGED resp
  /\ UNCHANGED <<tasks, task_dependencies>>

\* while let Some(p) = prev.get(&cur): one iteration, or the final push and
\* path.reverse()
critical_path_walk_step(w) ==
  /\ calls[w].pc = "walk"
  /\ IF calls[w].prev[calls[w].cur] # NULL
     THEN /\ calls' = [calls EXCEPT ![w].path = <<calls[w].cur>> \o @,
                                    ![w].cur = calls[w].prev[calls[w].cur]]
          /\ UNCHANGED resp
     ELSE /\ resp' = Response("critical_path", Ok, <<calls[w].cur>> \o calls[w].path)
          /\ calls' = [calls EXCEPT ![w] = idle]
  /\ UNCHANGED <<tasks, task_dependencies>>

\* the three tasks of project p1, each of weight 0 or 1
LoopTasks ==
  [TaskIds -> [project_id : {"p1"}, start_date : {NULL}, end_date : {NULL},
               duration_days : FixtureDurations, deleted_at : {NULL}]]
\* up to MaxLoopDeps rows between them, cycles and parallel rows included
LoopPairs == {pr \in TaskIds \X TaskIds : check_constraint(pr[1], pr[2])}
LoopDeps ==
  {{[id |-> i, source_task_id |-> f[i][1], target_task_id |-> f[i][2],
     type_ |-> "finish_to_start"] : i \in DOMAIN f} :
     f \in {h \in UNION {[1..k -> LoopPairs] : k \in 0..MaxLoopDeps} :
              \A i, j \in DOMAIN h : i < j => PairRank(h[i]) <= PairRank(h[j])}}

InitLoops ==
  /\ tasks \in LoopTasks
  /\ task_dependencies \in LoopDeps
  /\ resp = Response("none", Ok, <<>>)
  /\ calls = [w \in {1} |-> idle]

\* one request per store: a create_dependency or a critical-path query
LoopsCreateBegin ==
  /\ resp.op = "none"
  /\ \E s \in TaskIds, t \in TaskIds, k \in Kinds : create_dependency_begin(1, "p1", s, t, k)
LoopsReverseExists == create_dependency_reverse_exists(1)
LoopsReachInit == create_dependency_reach_init(1)
LoopsReachStep == create_dependency_reach_step(1)
LoopsReachExists == create_dependency_reach_exists(1)
LoopsBuild == resp.op = "none" /\ critical_path_build(1, "p1")
LoopsKahnStep == critical_path_kahn_step(1)
LoopsKahnExit == critical_path_kahn_exit(1)
LoopsRelaxStep == critical_path_relax_step(1)
LoopsFindMax == critical_path_find_max(1)
LoopsWalkStep == critical_path_walk_step(1)

NextLoops ==
  \/ LoopsCreateBegin \/ LoopsReverseExists
  \/ LoopsReachInit \/ LoopsReachStep \/ LoopsReachExists
  \/ LoopsBuild \/ LoopsKahnStep \/ LoopsKahnExit
  \/ LoopsRelaxStep \/ LoopsFindMax \/ LoopsWalkStep

SpecLoops == InitLoops /\ [][NextLoops]_vars

\* the request that is under way is scheduled again: every statement and
\* every loop iteration of a handler that can run does run
SpecLoopsFair == SpecLoops /\ WF_vars(NextLoops)

(* ---------------------------------------------------------------------- *)
(* Vocabulary of the properties                                            *)
(* ---------------------------------------------------------------------- *)
\* the stored edges as (source, target) pairs
Edges == {<<d.source_task_id, d.target_task_id>> : d \in task_dependencies}

\* transitive closure of a relation over the task rows, one pivot at a time
RECURSIVE Closure(_, _)
Closure(R, S) ==
  IF S = {} THEN R
  ELSE LET k == CHOOSE x \in S : TRUE
       IN Closure(R \cup {pr \in (DOMAIN tasks) \X (DOMAIN tasks) :
                            <<pr[1], k>> \in R /\ <<k, pr[2]>> \in R}, S \ {k})

\* a directed path of one or more edges of E leads from a to b
Reaches(E, a, b) == <<a, b>> \in Closure(E, DOMAIN tasks)

\* a directed path of two or more edges of E leads from a to b
ReachesDeep(E, a, b) == \E m \in DOMAIN tasks : <<a, m>> \in E /\ Reaches(E, m, b)

\* t is a non-deleted task of project p
IsLive(p, t) == t \in DOMAIN tasks /\ tasks[t].project_id = p /\ tasks[t].deleted_at = NULL

\* p is a project the caller owns
IsOwn(p) == p \in DOMAIN projects /\ projects[p].user_id = AuthUser /\ projects[p].deleted_at = NULL

\* the edges whose source task is a live member of project p
ProjectEdges(p) == {e \in Edges : IsLive(p, e[1])}

C2_Original ==
  \A p \in ProjectIds, x \in TaskIds, k \in Kinds :
    IsOwn(p) => create_dependency_outcome(p, x, x, k).resp.err = SelfDependency

\* C2 amended: create_dependency(p, X, X, kind) never succeeds and never
\* stores an edge; it fails with SelfDependency when X is a live task of a
\* project p of the caller
C2_SelfLoopRejected ==
  \A p \in ProjectIds, x \in TaskIds, k \in Kinds :
    LET out == create_dependency_outcome(p, x, x, k)
    IN /\ out.resp.err # Ok
       /\ out.task_dependencies = task_dependencies
       /\ (IsOwn(p) /\ IsLive(p, x)) => out.resp.err = SelfDependency

\* C2 witness: a request was rejected as a self dependency
C2_Witness ==
  /\ resp.op = "create_dependency" /\ resp.err = SelfDependency
  /\ \E t \in DOMAIN tasks : tasks[t].deleted_at = NULL

\* C3: with A->B stored and A, B live tasks of p, create_dependency(p, B, A, kind)
\* fails with ReverseExists and stores nothing
C3_ReverseRejected ==
  \A p \in ProjectIds, a \in TaskIds, b \in TaskIds, k \in Kinds :
    (<<a, b>> \in Edges /\ IsLive(p, a) /\ IsLive(p, b)) =>
      LET out == create_dependency_outcome(p, b, a, k)
      IN out.resp.err = ReverseExists /\ out.task_dependencies = task_dependencies

\* C3 witness: a request was rejected because the reverse edge is stored
C3_Witness ==
  /\ resp.op = "create_dependency" /\ resp.err = ReverseExists
  /\ \E e \in Edges : \E p \in ProjectIds : IsLive(p, e[1]) /\ IsLive(p, e[2])

\* C4 as stated: when t reaches s along two or more stored edges and no
\* edge t->s is stored, create_dependency(p, s, t, kind), p the project of
\* the rows s and t, fails with CycleDetected and stores nothing
C4_Original ==
  \A p \in ProjectIds, s \in TaskIds, t \in TaskIds, k \in Kinds :
    (/\ IsOwn(p) /\ s \in DOMAIN tasks /\ t \in DOMAIN tasks
     /\ tasks[s].project_id = p /\ tasks[t].project_id = p
     /\ ReachesDeep(Edges, t, s) /\ <<t, s>> \notin Edges) =>
      LET out == create_dependency_outcome(p, s, t, k)
      IN out.resp.err = CycleDetected /\ out.task_dependencies = task_dependencies

\* C4 amended: the same, for s and t live tasks of p
C4_DeepCycleRejected ==
  \A p \in ProjectIds, s \in TaskIds, t \in TaskIds, k \in Kinds :
    (/\ IsLive(p, s) /\ IsLive(p, t)
     /\ ReachesDeep(Edges, t, s) /\ <<t, s>> \notin Edges) =>
      LET out == create_dependency_outcome(p, s, t, k)
      IN out.resp.err = CycleDetected /\ out.task_dependencies = task_dependencies

\* C4 witness: a request was rejected by the reachability check while a
\* chain of two edges between live tasks, with no direct edge, is stored
C4_Witness ==
  /\ resp.op = "create_dependency" /\ resp.err = CycleDetected
  /\ \E p \in ProjectIds, a \in TaskIds, b \in TaskIds, c \in TaskIds :
       /\ IsLive(p, a) /\ IsLive(p, b) /\ IsLive(p, c)
       /\ <<a, b>> \in Edges /\ <<b, c>> \in Edges /\ <<a, c>> \notin Edges

\* C5: create_dependency(p, s, t, kind) with s # t live tasks of p returns
\* the new record whenever t does not reach s along the edges whose source
\* is a live task of p
C5_AcceptOtherwise ==
  \A p \in ProjectIds, s \in TaskIds, t \in TaskIds, k \in Kinds :
    (s # t /\ IsLive(p, s) /\ IsLive(p, t) /\ ~Reaches(ProjectEdges(p), t, s)) =>
      LET out == create_dependency_outcome(p, s, t, k)
      IN /\ out.resp.err = Ok
         /\ Len(out.resp.body) = 1
         /\ out.resp.body[1].source_task_id = s
         /\ out.resp.body[1].target_task_id = t

\* C6: create_dependency(p, s, t, kind) on a project of the caller fails
\* with TaskNotFound and stores nothing when s or t is not a live task of p
C6_TaskNotFound ==
  \A p \in ProjectIds, s \in TaskIds, t \in TaskIds, k \in Kinds :
    (IsOwn(p) /\ (~IsLive(p, s) \/ ~IsLive(p, t))) =>
      LET out == create_dependency_outcome(p, s, t, k)
      IN out.resp.err = TaskNotFound /\ out.task_dependencies = task_dependencies

\* C6 witness: a request was rejected with TaskNotFound while the store
\* holds a soft-deleted task and live tasks of both projects
C6_Witness ==
  /\ resp.op = "create_dependency" /\ resp.err = TaskNotFound
  /\ \E t \in DOMAIN tasks : tasks[t].deleted_at # NULL
  /\ \E t \in DOMAIN tasks : IsLive("p1", t)
  /\ \E t \in DOMAIN tasks : IsLive("p2", t)

(* ---------------------------------------------------------------------- *)
(* Critical path (get_project_critical_path)                               *)
(* ---------------------------------------------------------------------- *)
\* the live tasks of p and the edges between them
LiveNodes(p) == {t \in DOMAIN tasks : IsLive(p, t)}
LiveEdges(p) == {e \in Edges : IsLive(p, e[1]) /\ IsLive(p, e[2])}
LiveCyclic(p) ==
  LET closed == Closure(LiveEdges(p), DOMAIN tasks)
  IN \E n \in LiveNodes(p) : <<n, n>> \in closed

\* the weight of a task row and the summed weight of a sequence of tasks
Weight(t) == duration_days_of(tasks[t])
RECURSIVE SeqWeight(_)
SeqWeight(sq) == IF sq = <<>> THEN 0 ELSE Weight(Head(sq)) + SeqWeight(Tail(sq))

\* sq lists distinct tasks, each consecutive pair an edge of E
IsChain(sq, E) ==
  /\ \A i, j \in DOMAIN sq : sq[i] = sq[j] => i = j
  /\ \A i \in DOMAIN sq : i < Len(sq) => <<sq[i], sq[i + 1]>> \in E

\* the chains of cs and every chain that extends one of them along E
RECURSIVE GrowChains(_, _, _)
GrowChains(cs, N, E) ==
  LET more == {Append(x[1], x[2]) :
                 x \in {y \in cs \X N :
                          /\ <<y[1][Len(y[1])], y[2]>> \in E
                          /\ \A i \in DOMAIN y[1] : y[1][i] # y[2]}}
  IN IF more \subseteq cs THEN cs ELSE GrowChains(cs \cup more, N, E)

\* every directed path of the live graph of p, single nodes included
Chains(p) == GrowChains({<<n>> : n \in LiveNodes(p)}, LiveNodes(p), LiveEdges(p))

\* the largest summed weight of a directed path of the live graph of p
MaxChainWeight(p) ==
  LET ws == {SeqWeight(c) : c \in Chains(p)}
  IN IF ws = {} THEN 0 ELSE CHOOSE w \in ws : \A v \in ws : v <= w

\* the last request was a critical-path query of p1 that returned a path
Answered == resp.op = "critical_path" /\ resp.err = Ok

\* C7: on an acyclic graph with non-negative weights the returned path
\* weighs as much as the heaviest directed path of the whole live graph,
\* whichever order rows and hash maps were traversed in
C7_MaximumWeight == Answered => SeqWeight(resp.body) = MaxChainWeight("p1")

\* C7 witness: a two-task path was returned while a third live task of
\* positive weight lies in another component
C7_Witness ==
  /\ Answered /\ Len(resp.body) = 2
  /\ \E n \in LiveNodes("p1") :
       /\ Weight(n) > 0
       /\ \A e \in LiveEdges("p1") : e[1] # n /\ e[2] # n

\* C8: the returned path lists distinct live tasks of the project, each
\* consecutive pair a stored dependency edge
C8_EdgeValidChain ==
  Answered =>
    /\ \A i \in DOMAIN resp.body : IsLive("p1", resp.body[i])
    /\ IsChain(resp.body, Edges)

\* C8 witness: a path of two or more tasks was returned while another
\* chain, sharing no task with it, ties for the maximum
C8_Witness ==
  /\ Answered /\ Len(resp.body) >= 2
  /\ \E c \in Chains("p1") :
       /\ SeqWeight(c) = SeqWeight(resp.body)
       /\ \A i \in DOMAIN c, j \in DOMAIN resp.body : c[i] # resp.body[j]

\* C9: when the live graph of the project holds a directed cycle the query
\* fails with GraphInvalid
C9_CycleDetected ==
  (resp.op = "critical_path" /\ LiveCyclic("p1")) => resp.err = GraphInvalid

\* C9 witness: the query failed on a store whose tasks are all live, two of
\* them on a loop written past the guard and a third one outside it
C9_Witness ==
  /\ resp.op = "critical_path" /\ resp.err = GraphInvalid
  /\ \E a, b \in LiveNodes("p1") : {<<a, b>>, <<b, a>>} \subseteq LiveEdges("p1")
  /\ \E n \in LiveNodes("p1") : \A e \in LiveEdges("p1") : e[1] # n /\ e[2] # n

PriorityWeight(t) ==
  IF t.duration_days # NULL THEN t.duration_days
  ELSE IF t.start_date # NULL /\ t.end_date # NULL
       THEN CHOOSE d \in 0..t.end_date :
              /\ d * HalfDaysPerDay <= t.end_date - t.start_date
              /\ (d + 1) * HalfDaysPerDay > t.end_date - t.start_date
       ELSE 0

\* C16: each live task is weighed by the priority rule, and with no
\* dependency stored the query returns one task of the largest such weight
C16_WeightPriority ==
  /\ \A t \in nodes_of("p1") : durations_of("p1")[t] = PriorityWeight(tasks[t])
  /\ Answered =>
        IF LiveNodes("p1") = {} THEN resp.body = <<>>
        ELSE /\ Len(resp.body) = 1
             /\ resp.body[1] \in LiveNodes("p1")
             /\ \A m \in LiveNodes("p1") :
                   PriorityWeight(tasks[m]) <= PriorityWeight(tasks[resp.body[1]])

\* C16 witness: the query returned a task weighed by its dates in a store
\* that also holds a task whose stored duration 0 overrides a span of two days
C16_Witness ==
  /\ Answered /\ Len(resp.body) = 1
  /\ tasks[resp.body[1]].duration_days = NULL
  /\ PriorityWeight(tasks[resp.body[1]]) = 1
  /\ \E m \in LiveNodes("p1") :
       /\ tasks[m].duration_days = 0
       /\ tasks[m].start_date = 0 /\ tasks[m].end_date = 4

(* ---------------------------------------------------------------------- *)
(* Shape of the returned path                                              *)
(* ---------------------------------------------------------------------- *)
\* C11: the query returns the empty path, not an error, when the project
\* has no live task, and a non-empty path when it has one and the live
\* graph is acyclic
C11_EmptyIffNoTasks ==
  resp.op = "critical_path" =>
    /\ LiveNodes("p1") = {} => (resp.err = Ok /\ resp.body = <<>>)
    /\ (LiveNodes("p1") # {} /\ ~LiveCyclic("p1")) =>
         (resp.err = Ok /\ resp.body # <<>>)

\* C11 witness: the empty path was returned for a store whose task rows are
\* all soft-deleted or of another project, with a dependency row among them
C11_Witness ==
  /\ Answered /\ resp.body = <<>>
  /\ DOMAIN tasks # {} /\ task_dependencies # {}

\* the directed paths of the live graph of p that attain the maximum weight
HeaviestChains(p) ==
  LET cs == Chains(p)
      ws == {SeqWeight(c) : c \in cs}
      mx == CHOOSE w \in ws : \A v \in ws : v <= w
  IN IF cs = {} THEN {} ELSE {c \in cs : SeqWeight(c) = mx}

\* C12: when one directed path alone attains the maximum weight, the query
\* returns that path, first task upstream
C12_UniqueMaximum ==
  Answered =>
    LET hs == HeaviestChains("p1")
    IN Cardinality(hs) = 1 => resp.body \in hs

\* C12 witness: the single heaviest path has two tasks and was returned
\* while a task of positive weight lies outside it
C12_Witness ==
  /\ Answered /\ Cardinality(HeaviestChains("p1")) = 1
  /\ Len(resp.body) = 2
  /\ \E n \in LiveNodes("p1") :
       Weight(n) > 0 /\ \A i \in DOMAIN resp.body : resp.body[i] # n

\* the rows sql_deps selects for p, and the same with one row per pair
SelectedRows(p) == {d \in task_dependencies : IsLive(p, d.source_task_id)}
SamePair(d, e) ==
  d.source_task_id = e.source_task_id /\ d.target_task_id = e.target_task_id
Deduplicated(rows) ==
  {d \in rows : \A e \in rows : SamePair(d, e) => d.id <= e.id}
HasParallelRows(p) ==
  \E d \in SelectedRows(p), e \in SelectedRows(p) :
    d # e /\ SamePair(d, e) /\ IsLive(p, d.target_task_id)

\* C13: on an acyclic live graph stored with parallel rows the query
\* succeeds, and its path weighs what every answer on the deduplicated rows
\* weighs
C13_ParallelEdges ==
  (resp.op = "critical_path" /\ HasParallelRows("p1") /\ ~LiveCyclic("p1")) =>
    /\ resp.err = Ok
    /\ \A r \in critical_path_results_of("p1", Deduplicated(SelectedRows("p1"))) :
         r.err = Ok /\ SeqWeight(r.body) = SeqWeight(resp.body)

\* C13 witness: a path over a pair of tasks joined by two rows was returned
C13_Witness ==
  /\ Answered /\ Len(resp.body) = 2
  /\ \E d \in task_dependencies, e \in task_dependencies :
       /\ d # e /\ SamePair(d, e)
       /\ d.source_task_id = resp.body[1] /\ d.target_task_id = resp.body[2]

\* C14: two invocations on the same store return the same answer
C14_Deterministic ==
  [][(resp.op = "critical_path" /\ resp'.op = "critical_path") => resp' = resp]_vars

\* the rows between live tasks of p
LiveRows(p) ==
  {d \in task_dependencies : IsLive(p, d.source_task_id) /\ IsLive(p, d.target_task_id)}
HasDeadRow(p) == LiveRows(p) # task_dependencies

\* C17: the returned path holds live tasks only, and with rows stored that
\* touch a soft-deleted or foreign task the answer is one the query gives
\* without those rows
C17_OnlyLiveTasks ==
  resp.op = "critical_path" =>
    /\ \A i \in DOMAIN resp.body : IsLive("p1", resp.body[i])
    /\ HasDeadRow("p1") => resp \in critical_path_results_of("p1", LiveRows("p1"))

\* C17 witness: a path was returned from a store where a row leads from a
\* live task into a soft-deleted one and another row leads out of it
C17_Witness ==
  /\ Answered /\ resp.body # <<>>
  /\ \E d \in task_dependencies, e \in task_dependencies :
       /\ d.target_task_id = e.source_task_id
       /\ tasks[d.target_task_id].deleted_at # NULL
       /\ IsLive("p1", d.source_task_id) /\ IsLive("p1", e.target_task_id)

(* ---------------------------------------------------------------------- *)
(* Concurrent requests and the write path                                  *)
(* ---------------------------------------------------------------------- *)
\* some task reaches itself along the rows of E
Cyclic(E) ==
  LET closed == Closure(E, DOMAIN tasks)
  IN \E n \in DOMAIN tasks : <<n, n>> \in closed

\* C18: the stored edges become cyclic only by the INSERT of a request that
\* passed both of its checks earlier and whose target, by the time of the
\* INSERT, reaches its source; that request is answered with the new row
C18_RaceAdmitsCycle ==
  [][(task_dependencies' # task_dependencies /\ ~Cyclic(Edges) /\ Cyclic(Edges')) =>
       \E w \in Workers :
         /\ calls[w].pc = "insert" /\ calls'[w] = idle
         /\ Reaches(Edges, calls[w].target, calls[w].source)
         /\ resp'.op = "create_dependency" /\ resp'.err = Ok
         /\ resp'.body[1].source_task_id = calls[w].source
         /\ resp'.body[1].target_task_id = calls[w].target]_vars

\* C18 witness: both requests A->B and B->A were accepted; the store holds
\* the two rows and no request is running
C18_Witness ==
  /\ resp.op = "create_dependency" /\ resp.err = Ok
  /\ \A w \in Workers : calls[w] = idle
  /\ \E a \in TaskIds, b \in TaskIds :
       a # b /\ Edges = {<<a, b>>, <<b, a>>}

\* C19: no stored row links a task to itself, no request that passed the
\* self test of the handler carries source = target, and the CHECK
\* constraint of the table refuses such a row
C19_NoSelfLoop ==
  /\ \A d \in task_dependencies : d.source_task_id # d.target_task_id
  /\ \A w \in DOMAIN calls :
       calls[w].pc # "idle" => calls[w].source # calls[w].target
  /\ \A t \in TaskIds : ~check_constraint(t, t)

\* C19 witness: a request X->X was rejected while another request is about
\* to insert and a row is stored
C19_Witness ==
  /\ resp.op = "create_dependency" /\ resp.err = SelfDependency
  /\ task_dependencies # {}
  /\ \E w \in Workers : calls[w].pc = "insert"

\* C20: an accepted create_dependency(p, s, t, kind) has s and t live tasks
\* of p, and every stored row joins two task rows of one project
C20_NoCrossProjectEdges ==
  /\ \A p \in ProjectIds, s \in TaskIds, t \in TaskIds, k \in Kinds :
       create_dependency_outcome(p, s, t, k).resp.err = Ok =>
         IsLive(p, s) /\ IsLive(p, t)
  /\ \A d \in task_dependencies :
       /\ d.source_task_id \in DOMAIN tasks /\ d.target_task_id \in DOMAIN tasks
       /\ tasks[d.source_task_id].project_id = tasks[d.target_task_id].project_id

\* C20 witness: a dependency was accepted while both projects of the caller
\* hold a live task, so that a row across the two could be asked for
C20_Witness ==
  /\ resp.op = "create_dependency" /\ resp.err = Ok
  /\ \E t \in DOMAIN tasks : IsLive("p1", t)
  /\ \E t \in DOMAIN tasks : IsLive("p2", t)
  /\ \E d \in task_dependencies : d.id = resp.body[1].id

(* ---------------------------------------------------------------------- *)
(* Create, list and delete of a dependency                                 *)
(* ---------------------------------------------------------------------- *)
\* the rows of the table after delete_dependency(p, id) on a table holding rows
AfterDelete(rows, p, id) == rows \ delete_dependency_rows_of(rows, p, id)

\* C23 as stated: an accepted create_dependency(p, s, t) is listed with its
\* source and target; the delete of its id then succeeds, restores the
\* stored rows, unlists it, and a request t->s that was rejected as a
\* reverse link is no longer rejected as one
C23_Original ==
  \A p \in ProjectIds, s \in TaskIds, t \in TaskIds, k \in Kinds :
    LET out == create_dependency_outcome(p, s, t, k)
    IN out.resp.err = Ok =>
         LET d == out.resp.body[1]
             rows == out.task_dependencies
             after == AfterDelete(rows, p, d.id)
         IN /\ d \in list_dependencies_of(rows, p)
            /\ d.source_task_id = s /\ d.target_task_id = t
            /\ after # rows
            /\ after = task_dependencies
            /\ d \notin list_dependencies_of(after, p)
            /\ reverse_exists_of(rows, t, s) => ~reverse_exists_of(after, t, s)

\* C23 amended: the same, the last part for a pair s, t that no other
\* stored row joins in that direction
C23_RoundTrip ==
  \A p \in ProjectIds, s \in TaskIds, t \in TaskIds, k \in Kinds :
    LET out == create_dependency_outcome(p, s, t, k)
    IN out.resp.err = Ok =>
         LET d == out.resp.body[1]
             rows == out.task_dependencies
             after == AfterDelete(rows, p, d.id)
         IN /\ d \in list_dependencies_of(rows, p)
            /\ d.source_task_id = s /\ d.target_task_id = t
            /\ after # rows
            /\ after = task_dependencies
            /\ d \notin list_dependencies_of(after, p)
            /\ reverse_exists_of(rows, t, s)
            /\ <<s, t>> \notin Edges => ~reverse_exists_of(after, t, s)

\* C23 witness: a dependency was deleted, another row is still stored and a
\* further dependency would be accepted
C23_Witness ==
  /\ resp.op = "delete_dependency" /\ resp.err = Ok
  /\ task_dependencies # {}
  /\ \E p \in ProjectIds, s \in TaskIds, t \in TaskIds, k \in Kinds :
       create_dependency_outcome(p, s, t, k).resp.err = Ok

\* C27: an accepted create_dependency(p, s, t, kind) adds one row with a
\* fresh id and the requested source, target and kind and keeps every
\* stored row; a rejected one leaves the dependency rows as they are; the
\* task rows are left as they are either way
C27_CreateFrame ==
  \A p \in ProjectIds, s \in TaskIds, t \in TaskIds, k \in Kinds :
    LET out == create_dependency_outcome(p, s, t, k)
    IN /\ out.tasks = tasks
       /\ IF out.resp.err = Ok
          THEN /\ Len(out.resp.body) = 1
               /\ LET d == out.resp.body[1]
                  IN /\ out.task_dependencies = task_dependencies \cup {d}
                     /\ \A e \in task_dependencies : e.id # d.id
                     /\ d.source_task_id = s /\ d.target_task_id = t /\ d.type_ = k
          ELSE /\ out.task_dependencies = task_dependencies
               /\ out.resp.body = <<>>
               /\ out.resp.err \in {SelfDependency, ReverseExists, CycleDetected,
                                     TaskNotFound, ProjectNotFound, Forbidden}

\* C27 witness: a dependency was accepted next to a stored row, and the
\* request for its reverse would be rejected
C27_Witness ==
  /\ resp.op = "create_dependency" /\ resp.err = Ok
  /\ Cardinality(task_dependencies) = 2
  /\ resp.body[1] \in task_dependencies
  /\ \E p \in ProjectIds, k \in Kinds :
       create_dependency_outcome(p, resp.body[1].target_task_id,
                                 resp.body[1].source_task_id, k).resp.err = ReverseExists

\* C28: after any sequence of task and dependency requests no task reaches
\* itself along the stored rows, rows at soft-deleted tasks included, and
\* no request is accepted whose target reaches its source along any
\* stored row, whatever the project or deletion state of the tasks on the way
C28_WholeStoreAcyclic ==
  /\ ~Cyclic(Edges)
  /\ \A p \in ProjectIds, s \in TaskIds, t \in TaskIds, k \in Kinds :
       create_dependency_outcome(p, s, t, k).resp.err = Ok =>
         /\ ~Reaches(Edges, t, s)
         /\ ~Cyclic(Edges \cup {<<s, t>>})

\* C28 witness: a dependency was accepted while a chain of two rows passes
\* through a soft-deleted task
C28_Witness ==
  /\ resp.op \in {"create_dependency", "delete_task"} /\ resp.err = Ok
  /\ \E d \in task_dependencies, e \in task_dependencies :
       /\ d.target_task_id = e.source_task_id
       /\ tasks[e.source_task_id].deleted_at # NULL

(* ---------------------------------------------------------------------- *)
(* The passes of get_project_critical_path                                 *)
(* ---------------------------------------------------------------------- *)
\* C29: a returned path of more than one task starts at a task of weight
\* above 0, and when every live task has weight 0 the returned path holds
\* exactly one task
C29_ZeroWeightHeads ==
  Answered =>
    /\ Len(resp.body) > 1 => Weight(resp.body[1]) > 0
    /\ (LiveNodes("p1") # {} /\ \A n \in LiveNodes("p1") : Weight(n) = 0) =>
         Len(resp.body) = 1

\* C29 witness: one task was returned from a graph of weight-0 tasks that
\* holds a chain of two edges
C29_Witness ==
  /\ Answered /\ Len(resp.body) = 1
  /\ \A n \in LiveNodes("p1") : Weight(n) = 0
  /\ \E e \in LiveEdges("p1"), f \in LiveEdges("p1") : e[2] = f[1]

\* the place of node n in the sequence sq
Pos(sq, n) == CHOOSE i \in DOMAIN sq : sq[i] = n

\* C25: in every run Kahn's loop outputs live nodes, each at most once; it
\* outputs all of them exactly when the live graph is acyclic, and then
\* every edge leads from an earlier to a later node of the order; the
\* query fails with GraphInvalid exactly on a cyclic live graph
C25_KahnSoundComplete ==
  /\ resp.op = "critical_path" => \A r \in runs_of("p1") :
       /\ \A i \in DOMAIN r.topo : r.topo[i] \in LiveNodes("p1")
       /\ \A i \in DOMAIN r.topo, j \in DOMAIN r.topo : r.topo[i] = r.topo[j] => i = j
       /\ (Len(r.topo) = Cardinality(LiveNodes("p1"))) <=> ~LiveCyclic("p1")
       /\ Len(r.topo) = Cardinality(LiveNodes("p1")) =>
            \A e \in LiveEdges("p1") : Pos(r.topo, e[1]) < Pos(r.topo, e[2])
  /\ resp.op = "critical_path" => (resp.err = GraphInvalid <=> LiveCyclic("p1"))

\* C25 witness: the query answered on three live tasks joined by edges into
\* one of them from the two others
C25_Witness ==
  /\ Answered
  /\ Cardinality(LiveNodes("p1")) = 3
  /\ \E e \in LiveEdges("p1"), f \in LiveEdges("p1") : e[2] = f[2] /\ e[1] # f[1]

\* C26: after the relaxation pass over a complete topological order, best[n]
\* is the largest summed weight of a directed path ending at n, and the
\* walk along prev from n ends at a task without predecessor and gives a
\* directed path ending at n of summed weight best[n]
C26_LongestPathDP ==
  LET cs == Chains("p1")
  IN resp.op = "critical_path" => \A r \in runs_of("p1") :
       Len(r.topo) = Cardinality(LiveNodes("p1")) =>
         LET dp == dp_of(durations_of("p1"), r.adj, r.topo)
         IN \A n \in LiveNodes("p1") :
              LET ws == {SeqWeight(c) : c \in {x \in cs : x[Len(x)] = n}}
                  w == walk(n, dp.prev, <<>>)
              IN /\ dp.best[n] \in ws /\ \A v \in ws : v <= dp.best[n]
                 /\ w \in cs /\ w[Len(w)] = n
                 /\ dp.prev[w[1]] = NULL
                 /\ SeqWeight(w) = dp.best[n]

\* C26 witness: the query answered with a path of two tasks while another
\* edge enters its last task from a lighter task
C26_Witness ==
  /\ Answered /\ Len(resp.body) = 2
  /\ \E e \in LiveEdges("p1") :
       /\ e[2] = resp.body[2] /\ e[1] # resp.body[1]
       /\ Weight(e[1]) < Weight(resp.body[1])

FailsAlone(p, u) ==
  \/ ~IsLive(p, u.id)
  \/ u.start_date # NULL /\ u.end_date # NULL /\
       u.end_date - (u.end_date % HalfDaysPerDay) < u.start_date - (u.start_date % HalfDaysPerDay)
  \/ u.progress # NULL /\ u.progress \notin 0..100

\* C24: a batch with an item that fails is answered with one of the three
\* item errors, and a batch answered with an error leaves every task row as
\* it was, the rows of the items before the failing one included
C24_BatchAllOrNothing ==
  \A b \in Batches :
    LET out == batch_update_tasks_outcome("p1", b)
    IN /\ (\E i \in DOMAIN b : FailsAlone("p1", b[i])) =>
            \A r \in out.resps : r.err \in {TaskNotFound, BadDates, BadProgress}
       /\ \A r \in out.resps : r.err # Ok => out.tasks = tasks

\* C24 witness: a batch was rejected in a state where a batch of two items
\* fails at its second item although its first item alone changes a row
C24_Witness ==
  /\ resp.op = "batch_update_tasks" /\ resp.err = BadDates
  /\ \E t \in DOMAIN tasks : tasks[t].start_date # NULL
  /\ \E b \in Batches :
       /\ Len(b) = 2
       /\ \A r \in batch_update_tasks_outcome("p1", b).resps : r.err # Ok
       /\ batch_update_tasks_outcome("p1", <<b[1]>>).tasks # tasks

(* ---------------------------------------------------------------------- *)
(* A query racing with writes                                              *)
(* ---------------------------------------------------------------------- *)
\* C30: a query whose reads of tasks and of dependencies are separated by
\* task and dependency requests never fails with GraphInvalid, and every
\* consecutive pair of the path it returns is a row stored when the
\* dependencies were read
C30_RacingReads ==
  resp.op = "critical_path" =>
    /\ resp.err # GraphInvalid
    /\ \A i \in DOMAIN resp.body :
         i < Len(resp.body) => <<resp.body[i], resp.body[i + 1]>> \in Edges

\* C30 witness: a path of two tasks was returned whose last task was
\* soft-deleted between the two reads
C30_Witness ==
  /\ Answered /\ Len(resp.body) = 2
  /\ tasks[resp.body[2]].deleted_at # NULL
  /\ tasks[resp.body[1]].deleted_at = NULL

(* ---------------------------------------------------------------------- *)
(* Termination                                                             *)
(* ---------------------------------------------------------------------- *)
\* the request is inside its recursive query or one of its loops
InLoop == calls[1].pc \in {"reach", "kahn", "relax", "walk"}
\* the request is between two of its statements, the final INSERT aside
UnderWay == calls[1].pc \notin {"idle", "insert"}

\* C21: on every store, with a cycle or parallel rows or not, a request
\* that is under way leaves each of its loops and reaches its answer, or
\* for an accepted create_dependency its INSERT
C21_Termination == (InLoop ~> ~InLoop) /\ (UnderWay ~> ~UnderWay)

\* C21 witness: the recursive query has run out of rows after it came back
\* round a stored cycle to the task it started from
C21_Witness ==
  /\ calls[1].pc = "reach" /\ calls[1].queue = {}
  /\ calls[1].target \in calls[1].reach
  /\ Cyclic(Edges)

====
